---- MODULE Spec2Model ----
(***************************************************************************)
(* A model of the node's HTTP entry points (index.js): the transaction     *)
(* creating routes (user transact, contract deploy with its asynchronous   *)
(* build callback, contract interact), the mining routes with the          *)
(* addBlock override, and the WASM execution helper runWasmContract.       *)
(*                                                                         *)
(* Wallet, TransactionPool, Blockchain, TransactionMiner, P2pServer and    *)
(* the auth router are required by index.js but their files are not part   *)
(* of the sources; the operators that stand for them follow the design     *)
(* document and are marked so in MODEL_MAP.json.                           *)
(***************************************************************************)
EXTENDS Integers, Sequences, FiniteSets, TLC

VARIABLES
    chain,          \* blockchain.chain: sequence of blocks, genesis first
    pool,           \* transactionPool.transactionMap: id -> transaction
    nextId,         \* the next fresh transaction id (ids are random and unique)
    ephemeralKeys,  \* user ids holding a session key pair
    builds,         \* deploy requests whose cargo build / compile is in flight
    contracts,      \* contract store: addresses of the deployed contracts
    last,           \* the request (or helper call) handled by the last step
    trace           \* the side-effect calls of the last step, in call order

vars == <<chain, pool, nextId, ephemeralKeys, builds, contracts, last, trace>>

----------------------------------------------------------------------------
(* Bounds of the model. *)

\* transactions created plus deploy builds in flight
MaxTx == 2
\* blocks appended after genesis
MaxChain == 1

----------------------------------------------------------------------------
(* Program constants. *)

STARTING_BALANCE == 1000
MINING_REWARD == 50
\* FIXED_GAS_PRICE = 0.1, kept as the exact fraction 1 / FIXED_GAS_PRICE_DEN
FIXED_GAS_PRICE_DEN == 10
\* the fixed gas cost of calling an exported function
CALL_COST == 200
REWARD_INPUT == [address |-> "*authorized_reward"]

----------------------------------------------------------------------------
(* Inputs of the requests. *)

\* the users whose token authenticateToken accepts
UserIds == {"u1", "u2"}
\* the users who log in again after the node started; the session keys live
\* in memory only, so the other user's token is valid but finds no key
LoggingIn == {"u1"}
\* req.user.walletAddress of an authenticated user
WalletAddress(u) == IF u = "u1" THEN "a1" ELSE "a2"
\* req.body.gasLimit; 0 also stands for a missing gasLimit (both are falsy)
GasLimits == {-1, 0, 150, 200, 20000}
\* the length of the compiled temp_contract.wasm
CodeSizes == {100, 200, 300}
\* req.body.amount of a transfer
Amounts == {990, 1500}
\* req.body.contractAddress; 0 stands for a missing address
ContractAddresses == {0, 1, 2}

\* The requests served.  A request of the user without a session key is
\* refused before its body is read, so one body stands for all of them; so
\* does one body without rustCode, and one without functionName.
TransactRequests ==
    ({"u1"} \X {"a2"} \X Amounts) \cup {<<"u2", "a1", 990>>}
InteractRequests ==
    ({"u1"} \X ContractAddresses \X {"inc"} \X GasLimits)
    \cup {<<"u1", 1, "", 200>>, <<"u2", 1, "inc", 200>>}
DeployRequests ==
    ({"u1"} \X {TRUE} \X (GasLimits \ {150}))
    \cup {<<"u1", FALSE, 200>>, <<"u2", TRUE, 200>>}
\* how a cargo build ends: <<err, the wasm file exists, its length>>
BuildOutcomes ==
    {<<TRUE, FALSE, 0>>, <<FALSE, FALSE, 0>>} \cup ({FALSE} \X {TRUE} \X CodeSizes)

NoTx == [id |-> 0]

----------------------------------------------------------------------------
(* Wallet and Transaction (wallet/index.js, wallet/transaction.js). *)

\* what transaction tx pays to address a
OutputTo(tx, a) ==
    (IF tx.sender = a THEN tx.inputAmount - tx.amount ELSE 0)
  + (IF tx.recipient = a THEN tx.amount ELSE 0)

RECURSIVE BalanceOver(_, _, _)
BalanceOver(txs, a, bal) ==
    IF txs = <<>> THEN bal
    ELSE LET tx == Head(txs)
         IN  BalanceOver(Tail(txs), a,
                 IF tx.sender = a THEN OutputTo(tx, a)
                 ELSE bal + OutputTo(tx, a))

RECURSIVE ChainTransactions(_)
ChainTransactions(c) ==
    IF c = <<>> THEN <<>> ELSE Head(c).data \o ChainTransactions(Tail(c))

\* Wallet.calculateBalance({chain, address})
CalculateBalance(c, a) == BalanceOver(ChainTransactions(c), a, STARTING_BALANCE)

\* wallet.createTransaction({recipient, amount, chain}): the balance is
\* recomputed from the chain; throws when amount exceeds it
CreateTransaction(c, id, sender, recipient, amount) ==
    LET balance == CalculateBalance(c, sender)
    IN  IF amount > balance
        THEN [threw |-> TRUE, tx |-> NoTx]
        ELSE [threw |-> FALSE,
              tx |-> [id |-> id, type |-> "NORMAL", isDeploy |-> FALSE,
                      sender |-> sender, recipient |-> recipient,
                      amount |-> amount, inputAmount |-> balance,
                      contractAddress |-> 0, functionName |-> "",
                      gasLimit |-> 0]]

----------------------------------------------------------------------------
(* TransactionPool (wallet/transaction-pool.js). *)

\* transactionPool.setTransaction(tx): insert or replace by id
SetTransaction(p, tx) ==
    [i \in DOMAIN p \cup {tx.id} |-> IF i = tx.id THEN tx ELSE p[i]]

EmptyPool == [i \in {} |-> NoTx]

----------------------------------------------------------------------------
(* Responses and side-effect events. *)

Response(status, kind) == [status |-> status, kind |-> kind, contractAddress |-> 0]

Event(op, arg, flag) == [op |-> op, arg |-> arg, flag |-> flag]

\* what the last step handled and the responses it sent
Handled(op, responses) == [op |-> op, responses |-> responses]

\* gasLimit * FIXED_GAS_PRICE exceeds the wallet balance
BalanceBelowNeeded(balance, gasLimit) == balance * FIXED_GAS_PRICE_DEN < gasLimit

\* only the missing gasLimit is refused, a negative one is let through
MissingGasLimitOnly(gasLimit) == gasLimit = 0

\* !gasLimit || gasLimit <= 0
InvalidGasLimit(gasLimit) == gasLimit = 0 \/ gasLimit <= 0

\* the two calls in the opposite order: the broadcast goes out first
BroadcastThenPool(p, tx) ==
    [pool |-> SetTransaction(p, tx),
     trace |-> << Event("broadcastTransaction", tx.id, tx.id \in DOMAIN p),
                  Event("setTransaction", tx.id, TRUE) >>]

\* transactionPool.setTransaction(tx); p2pServer.broadcastTransaction(tx);
\* the broadcast event records whether tx is in the local pool when it is sent
PoolThenBroadcast(p, tx) ==
    LET p1 == SetTransaction(p, tx)
    IN  [pool |-> p1,
         trace |-> << Event("setTransaction", tx.id, TRUE),
                      Event("broadcastTransaction", tx.id, tx.id \in DOMAIN p1) >>]

\* the number of transactions created so far plus the builds in flight
Load == (nextId - 1) + Len(builds)

----------------------------------------------------------------------------
(* routes/auth.js: a login stores the user's session key pair. *)

Login(u) ==
    /\ u \notin ephemeralKeys
    /\ ephemeralKeys' = ephemeralKeys \cup {u}
    /\ last' = Handled("login", <<>>)
    /\ trace' = <<>>
    /\ UNCHANGED <<chain, pool, nextId, builds, contracts>>

----------------------------------------------------------------------------
(* POST /api/user/transact *)

TransactHandler(u, recipient, amount) ==
    LET fail(r) == [pool |-> pool, nextId |-> nextId, trace |-> <<>>,
                    last |-> Handled("transact", <<r>>)]
    IN  IF u \notin ephemeralKeys
        THEN fail(Response(401, "ReLoginRequired"))
        ELSE LET made == CreateTransaction(chain, nextId, WalletAddress(u),
                                           recipient, amount)
             IN  IF made.threw
                 THEN fail(Response(400, "InsufficientFunds"))
                 ELSE LET sent == PoolThenBroadcast(pool, made.tx)
                      IN  [pool |-> sent.pool, nextId |-> nextId + 1,
                           trace |-> sent.trace,
                           last |-> Handled("transact",
                                       <<Response(200, "TransactionSubmitted")>>)]

Transact(u, recipient, amount) ==
    \E out \in {TransactHandler(u, recipient, amount)} :
        /\ out.nextId > nextId => Load < MaxTx
        /\ pool' = out.pool
        /\ nextId' = out.nextId
        /\ last' = out.last
        /\ trace' = out.trace
        /\ UNCHANGED <<chain, ephemeralKeys, builds, contracts>>

----------------------------------------------------------------------------
(* POST /api/contract/interact *)

\* the comparison written with <=, which also refuses a limit of exactly 200
BelowCallCostInclusive(gasLimit) == gasLimit <= CALL_COST

\* gasLimit < 200
BelowCallCost(gasLimit) == gasLimit < CALL_COST

InteractHandler(u, contractAddress, functionName, gasLimit) ==
    LET balance == CalculateBalance(chain, WalletAddress(u))
        fail(r) == [pool |-> pool, nextId |-> nextId, trace |-> <<>>,
                    last |-> Handled("interact", <<r>>)]
    IN  IF u \notin ephemeralKeys
        THEN fail(Response(401, "ReLoginRequired"))
        ELSE IF contractAddress = 0 \/ functionName = ""
        THEN fail(Response(400, "MissingParameters"))
        ELSE IF InvalidGasLimit(gasLimit)
        THEN fail(Response(400, "GasLimitRequired"))
        ELSE IF BalanceBelowNeeded(balance, gasLimit)
        THEN fail(Response(400, "NeedBalance"))
        ELSE IF BelowCallCost(gasLimit)
        THEN fail(Response(400, "InsufficientGasLimit"))
        ELSE LET made == CreateTransaction(chain, nextId, WalletAddress(u),
                                           WalletAddress(u), 0)
             IN  IF made.threw
                 THEN fail(Response(400, "InsufficientFunds"))
                 ELSE LET tx == [made.tx EXCEPT
                                   !.type = "SMART_CONTRACT",
                                   !.isDeploy = FALSE,
                                   !.contractAddress = contractAddress,
                                   !.functionName = functionName,
                                   !.gasLimit = gasLimit]
                          sent == PoolThenBroadcast(pool, tx)
                      IN  [pool |-> sent.pool, nextId |-> nextId + 1,
                           trace |-> sent.trace,
                           last |-> Handled("interact",
                                       <<Response(200, "InteractTxCreated")>>)]

Interact(u, contractAddress, functionName, gasLimit) ==
    \E out \in {InteractHandler(u, contractAddress, functionName, gasLimit)} :
        /\ out.nextId > nextId => Load < MaxTx
        /\ pool' = out.pool
        /\ nextId' = out.nextId
        /\ last' = out.last
        /\ trace' = out.trace
        /\ UNCHANGED <<chain, ephemeralKeys, builds, contracts>>

----------------------------------------------------------------------------
(* POST /api/contract/deploy: the route, then the callback of the cargo     *)
(* build, which itself waits for WebAssembly.compile before it creates the  *)
(* transaction.  Other requests are served while a build is in flight.      *)
(* The payload fields of the transaction (wasmBase64, rustSource,           *)
(* exportedFunctions, contractDescription) are not kept.                    *)

\* the comparison written with >=, which also refuses an exact fit
DeployOutOfGasInclusive(codeSize, gasLimit) == codeSize >= gasLimit

\* codeSize > gasLimit
DeployOutOfGas(codeSize, gasLimit) == codeSize > gasLimit

RemoveAt(s, i) == SubSeq(s, 1, i - 1) \o SubSeq(s, i + 1, Len(s))

DeployHandler(u, hasRustCode, gasLimit) ==
    LET balance == CalculateBalance(chain, WalletAddress(u))
        fail(r) == [builds |-> builds, last |-> Handled("deploy", <<r>>)]
    IN  IF u \notin ephemeralKeys
        THEN fail(Response(401, "ReLoginRequired"))
        ELSE IF ~hasRustCode
        THEN fail(Response(400, "NoRustCode"))
        ELSE IF InvalidGasLimit(gasLimit)
        THEN fail(Response(400, "InvalidGasLimit"))
        ELSE IF BalanceBelowNeeded(balance, gasLimit)
        THEN fail(Response(400, "NeedBalance"))
        ELSE [builds |-> Append(builds, [user |-> u, gasLimit |-> gasLimit,
                                         stage |-> "building"]),
              last |-> Handled("deploy", <<>>)]

Deploy(u, hasRustCode, gasLimit) ==
    \E out \in {DeployHandler(u, hasRustCode, gasLimit)} :
        /\ Len(out.builds) > Len(builds) => Load < MaxTx
        /\ builds' = out.builds
        /\ last' = out.last
        /\ trace' = <<>>
        /\ UNCHANGED <<chain, pool, nextId, ephemeralKeys, contracts>>

\* the exec callback up to "await WebAssembly.compile(wasmBuffer)"
DeployBuiltHandler(i, err, wasmExists, codeSize) ==
    LET b == builds[i]
        fail(r) == [builds |-> RemoveAt(builds, i),
                    last |-> Handled("deployBuilt", <<r>>)]
    IN  IF err
        THEN fail(Response(400, "BuildFailed"))
        ELSE IF ~wasmExists
        THEN fail(Response(500, "WasmMissing"))
        ELSE IF DeployOutOfGas(codeSize, b.gasLimit)
        THEN fail(Response(400, "OutOfGas"))
        ELSE [builds |-> [builds EXCEPT ![i].stage = "compiling"],
              last |-> Handled("deployBuilt", <<>>)]

DeployBuilt(i, err, wasmExists, codeSize) ==
    \E out \in {DeployBuiltHandler(i, err, wasmExists, codeSize)} :
        /\ builds[i].stage = "building"
        /\ builds' = out.builds
        /\ last' = out.last
        /\ trace' = <<>>
        /\ UNCHANGED <<chain, pool, nextId, ephemeralKeys, contracts>>

\* contractAddress = crypto.randomBytes(8) + Date.now(): fresh per transaction
NewContractAddress(id) == id

\* the rest of the exec callback, once WebAssembly.compile has settled
DeployCompiledHandler(i) ==
    LET b == builds[i]
        a == WalletAddress(b.user)
        made == CreateTransaction(chain, nextId, a, a, 0)
    IN  IF made.threw
        THEN [pool |-> pool, nextId |-> nextId, trace |-> <<>>,
              last |-> Handled("deployCompiled",
                               <<Response(400, "InsufficientFunds")>>)]
        ELSE LET tx == [made.tx EXCEPT
                          !.type = "SMART_CONTRACT",
                          !.isDeploy = TRUE,
                          !.contractAddress = NewContractAddress(nextId),
                          !.gasLimit = b.gasLimit]
                 sent == PoolThenBroadcast(pool, tx)
             IN  [pool |-> sent.pool, nextId |-> nextId + 1,
                  trace |-> sent.trace,
                  last |-> Handled("deployCompiled",
                              <<[Response(200, "DeployTxCreated") EXCEPT
                                   !.contractAddress = tx.contractAddress]>>)]

DeployCompiled(i) ==
    \E out \in {DeployCompiledHandler(i)} :
        /\ builds[i].stage = "compiling"
        /\ builds' = RemoveAt(builds, i)
        /\ pool' = out.pool
        /\ nextId' = out.nextId
        /\ last' = out.last
        /\ trace' = out.trace
        /\ UNCHANGED <<chain, ephemeralKeys, contracts>>

----------------------------------------------------------------------------
(* blockchain.addBlock, overridden to notify and broadcast. *)

\* Blockchain.addBlock({data}): mine a block on the last one and append it
OriginalAdd(c, data) == Append(c, [data |-> data])

\* findUserIdByAddress(pubKey): the user whose session key is pubKey, if any
FindUserIdByAddress(keys, a) ==
    IF \E u \in keys : WalletAddress(u) = a
    THEN CHOOSE u \in keys : WalletAddress(u) = a
    ELSE "null"

\* p2pServer.broadcastChain(): sends blockchain.chain as it is now
BroadcastChain(c) == Event("broadcastChain", Len(c), TRUE)

RECURSIVE Notifications(_, _)
Notifications(keys, data) ==
    IF data = <<>> THEN <<>>
    ELSE LET tx == Head(data)
             uid == FindUserIdByAddress(keys, tx.sender)
         IN  (IF tx.type # "REWARD" /\ uid # "null"
              THEN <<Event("addNotification", tx.id, TRUE)>>
              ELSE <<>>) \o Notifications(keys, Tail(data))

\* the override with the broadcast placed before the append
BroadcastBeforeAdd(c, keys, data) ==
    LET c1 == OriginalAdd(c, data)
    IN  [chain |-> c1,
         trace |-> <<Event("addBlock", Len(c), TRUE), BroadcastChain(c),
                     Event("originalAdd", Len(c1), TRUE)>>
                   \o Notifications(keys, c1[Len(c1)].data)
                   \o <<Event("addBlockReturn", Len(c1), TRUE)>>]

\* blockchain.addBlock = args => { originalAdd; notify; broadcastChain; return }
AddBlock(c, keys, data) ==
    LET c1 == OriginalAdd(c, data)
    IN  [chain |-> c1,
         trace |-> <<Event("addBlock", Len(c), TRUE),
                     Event("originalAdd", Len(c1), TRUE)>>
                   \o Notifications(keys, c1[Len(c1)].data)
                   \o <<BroadcastChain(c1), Event("addBlockReturn", Len(c1), TRUE)>>]

----------------------------------------------------------------------------
(* POST /api/mine and GET /api/user/mine-transactions *)

RECURSIVE PoolSeqFrom(_, _)
PoolSeqFrom(p, i) ==
    IF i >= nextId THEN <<>>
    ELSE (IF i \in DOMAIN p THEN <<p[i]>> ELSE <<>>) \o PoolSeqFrom(p, i + 1)

\* Object.values(transactionMap), in insertion order
PoolSeq(p) == PoolSeqFrom(p, 1)

Mine(data) ==
    \E added \in {AddBlock(chain, ephemeralKeys, data)} :
        /\ Len(chain) <= MaxChain
        /\ chain' = added.chain
        /\ trace' = added.trace \o <<BroadcastChain(added.chain)>>
        /\ last' = Handled("mine", <<Response(302, "Redirect")>>)
        /\ UNCHANGED <<pool, nextId, ephemeralKeys, builds, contracts>>

\* transactionPool.validTransactions(): the pool's well-formed, signed entries
ValidTransactions(p) == PoolSeq(p)

\* Transaction.rewardTransaction({minerWallet})
RewardTransaction(a) ==
    [id |-> 0, type |-> "REWARD", isDeploy |-> FALSE,
     sender |-> REWARD_INPUT.address, recipient |-> a,
     amount |-> MINING_REWARD, inputAmount |-> MINING_REWARD,
     contractAddress |-> 0, functionName |-> "",
     gasLimit |-> 0]

\* the contracts that the deploy transactions of a block create
Deployed(data) ==
    {data[k].contractAddress : k \in {j \in DOMAIN data : data[j].isDeploy}}

\* TransactionMiner.mineTransactions(): valid pool transactions plus the
\* reward, addBlock, broadcastChain, clear the pool
MineTransactionsHandler(u) ==
    LET data == ValidTransactions(pool) \o <<RewardTransaction(WalletAddress(u))>>
        added == AddBlock(chain, ephemeralKeys, data)
    IN  [chain |-> added.chain,
         trace |-> added.trace \o <<BroadcastChain(added.chain),
                                    Event("clear", 0, TRUE)>>,
         pool |-> EmptyPool,
         contracts |-> contracts \cup Deployed(data)]

MineTransactions(u) ==
    IF u \notin ephemeralKeys
    THEN /\ last' = Handled("mineTransactions", <<Response(401, "ReLoginRequired")>>)
         /\ trace' = <<>>
         /\ UNCHANGED <<chain, pool, nextId, ephemeralKeys, builds, contracts>>
    ELSE \E out \in {MineTransactionsHandler(u)} :
             /\ Len(chain) <= MaxChain
             /\ chain' = out.chain
             /\ pool' = out.pool
             /\ contracts' = out.contracts
             /\ trace' = out.trace
             /\ last' = Handled("mineTransactions", <<Response(200, "MiningComplete")>>)
             /\ UNCHANGED <<nextId, ephemeralKeys, builds>>

----------------------------------------------------------------------------
(* runWasmContract({doc, functionName, functionArgs, gasLimit})             *)
(*                                                                          *)
(* Objects live in a heap so that doc.state and the helper's newState are   *)
(* told apart: "docState" is the object doc.state refers to.  A state holds *)
(* one ordinary key (count) and the reserved key lastCallResult.            *)

DocStates == [count : {"1"}, lastCallResult : {"undefined", "7"}]
WasmFunctionNames == {"", "inc", "dec"}
\* the compiled module: whether it compiles, its function exports, its length
WasmModules ==
    [valid : {TRUE}, exports : {{}, {"inc"}}, codeSize : CodeSizes]
    \cup {[valid |-> FALSE, exports |-> {}, codeSize |-> 100]}
\* what the exported function does when called: trap, or return a value
CallEffects == {[traps |-> TRUE, result |-> "undefined"],
                [traps |-> FALSE, result |-> "undefined"],
                [traps |-> FALSE, result |-> "1"]}

\* let newState = doc.state: no copy, both names refer to one object
AliasState(heap, ref) == [heap |-> heap, ref |-> ref]

\* let newState = { ...doc.state }
CopyState(heap, ref) ==
    [heap |-> [r \in DOMAIN heap \cup {"newState"} |->
                 IF r = "newState" THEN heap[ref] ELSE heap[r]],
     ref |-> "newState"]

\* newState.lastCallResult = resultVal
SetLastCallResult(heap, ref, v) == [heap EXCEPT ![ref].lastCallResult = v]

\* the comparison with its operands exchanged
OutOfGasSwapped(gasUsed, gasLimit) == gasLimit > gasUsed

\* gasUsed > gasLimit
OutOfGas(gasUsed, gasLimit) == gasUsed > gasLimit

\* functionName && typeof instance.exports[functionName] === 'function'
IsExportedFunction(module, functionName) ==
    functionName # "" /\ functionName \in module.exports

RunWasmContract(docState, module, functionName, effect, gasLimit) ==
    LET heap0 == [r \in {"docState"} |-> docState]
        copy == CopyState(heap0, "docState")
        call == [op |-> "runWasmContract", responses |-> <<>>,
                 functionName |-> functionName, gasLimit |-> gasLimit,
                 codeSize |-> module.codeSize,
                 compiled |-> module.valid,
                 exported |-> IsExportedFunction(module, functionName),
                 stateBefore |-> docState,
                 stateAfter |-> docState, outcome |-> "none", called |-> FALSE,
                 newState |-> docState, usedGas |-> 0, result |-> "null"]
        threw(h, kind, gasUsed, called) ==
            [call EXCEPT !.outcome = kind, !.usedGas = gasUsed,
                         !.called = called, !.stateAfter = h["docState"]]
        returned(h, gasUsed, called, result) ==
            [call EXCEPT !.outcome = "returned", !.usedGas = gasUsed,
                         !.called = called, !.result = result,
                         !.stateAfter = h["docState"],
                         !.newState = h[copy.ref]]
    IN  IF ~module.valid
        THEN threw(copy.heap, "CompileError", 0, FALSE)
        ELSE IF IsExportedFunction(module, functionName)
        THEN LET gasUsed == 0 + CALL_COST
             IN  IF OutOfGas(gasUsed, gasLimit)
                 THEN threw(copy.heap, "OutOfGasBeforeCall", gasUsed, FALSE)
                 ELSE IF effect.traps
                 THEN threw(copy.heap, "Trap", gasUsed, TRUE)
                 ELSE returned(SetLastCallResult(copy.heap, copy.ref, effect.result),
                               gasUsed, TRUE, effect.result)
        ELSE LET gasUsed == 0 + module.codeSize
             IN  IF OutOfGas(gasUsed, gasLimit)
                 THEN threw(copy.heap, "OutOfGasCodeSize", gasUsed, FALSE)
                 ELSE returned(copy.heap, gasUsed, FALSE, "null")

RunWasm(docState, module, functionName, effect, gasLimit) ==
    /\ last' = RunWasmContract(docState, module, functionName, effect, gasLimit)
    /\ trace' = <<>>
    /\ UNCHANGED <<chain, pool, nextId, ephemeralKeys, builds, contracts>>

----------------------------------------------------------------------------

Genesis == [data |-> <<>>]

Init ==
    /\ chain = <<Genesis>>
    /\ pool = EmptyPool
    /\ nextId = 1
    /\ ephemeralKeys = {}
    /\ builds = <<>>
    /\ contracts = {}
    /\ last = Handled("none", <<>>)
    /\ trace = <<>>

Next ==
    \/ \E u \in LoggingIn : Login(u)
    \/ \E r \in TransactRequests : Transact(r[1], r[2], r[3])
    \/ \E r \in InteractRequests : Interact(r[1], r[2], r[3], r[4])
    \/ \E r \in DeployRequests : Deploy(r[1], r[2], r[3])
    \/ \E i \in DOMAIN builds, o \in BuildOutcomes : DeployBuilt(i, o[1], o[2], o[3])
    \/ \E i \in DOMAIN builds : DeployCompiled(i)
    \/ \E d \in {<<>>, PoolSeq(pool)} : Mine(d)
    \/ \E u \in UserIds : MineTransactions(u)

Spec == Init /\ [][Next]_vars

\* Contract invocation: the interact route and the execution helper
NextInvoke ==
    \/ \E u \in LoggingIn : Login(u)
    \/ \E r \in InteractRequests : Interact(r[1], r[2], r[3], r[4])
    \/ \E d \in DocStates, m \in WasmModules, f \in WasmFunctionNames,
          e \in CallEffects, g \in GasLimits : RunWasm(d, m, f, e, g)

InvokeSpec == Init /\ [][NextInvoke]_vars

----------------------------------------------------------------------------
(* Properties. *)

\* the step answered with exactly one response, an error
Refused(l) == Len(l.responses) = 1 /\ l.responses[1].status >= 400

BalanceOf(u) == CalculateBalance(chain, WalletAddress(u))

\* C1: a deploy whose build reaches the gas check with a compiled length
\* above gasLimit is answered with the out-of-gas error and creates nothing
\* (no pooled transaction, no broadcast, no contract address, the request is
\* over); with a length up to and including gasLimit no error is raised and
\* the request goes on to the compilation.
C1_DeployOutOfGas ==
    [][\A i \in DOMAIN builds, n \in CodeSizes :
          (last'.op = "deployBuilt" /\ DeployBuilt(i, FALSE, TRUE, n)) =>
             /\ n > builds[i].gasLimit =>
                  /\ last'.responses = <<Response(400, "OutOfGas")>>
                  /\ pool' = pool /\ nextId' = nextId /\ trace' = <<>>
                  /\ builds' = RemoveAt(builds, i)
             /\ n <= builds[i].gasLimit =>
                  /\ last'.responses = <<>>
                  /\ builds' = [builds EXCEPT ![i].stage = "compiling"]]_vars

C1_Witness ==
    /\ last.op = "deployBuilt"
    /\ last.responses = <<Response(400, "OutOfGas")>>

C3_FunctionNotFound ==
    (last.op = "runWasmContract" /\ last.compiled /\ ~last.exported)
       => last.outcome # "returned"

\* C4: every invoke transaction in the pool names a deployed contract.
C4_ContractNotFound ==
    \A id \in DOMAIN pool :
       (pool[id].type = "SMART_CONTRACT" /\ ~pool[id].isDeploy)
          => pool[id].contractAddress \in contracts

\* C5: the pool holds at most one transaction per sender address.
C5_OnePerSender ==
    \A i, j \in DOMAIN pool : pool[i].sender = pool[j].sender => i = j

\* C6: when runWasmContract returns, usedGas is at most the gasLimit it was
\* given, and a call whose cost (200 for an exported function, the code
\* length otherwise) exceeds gasLimit does not return.
C6_UsedGasWithinLimit ==
    last.op = "runWasmContract" =>
       /\ last.outcome = "returned" => last.usedGas <= last.gasLimit
       /\ (IF last.exported THEN 200 ELSE last.codeSize) > last.gasLimit
             => last.outcome # "returned"

C6_Witness ==
    /\ last.op = "runWasmContract"
    /\ last.outcome = "returned"
    /\ last.usedGas = last.gasLimit

\* A step that ends in exactly one error response, with the pool unchanged
\* and nothing broadcast.
RefusedStep == Refused(last') /\ pool' = pool /\ trace' = <<>>

\* C7: in the three transaction-creating routes a missing session key, a
\* missing or non-positive gasLimit, a balance below gasLimit x the gas price,
\* running out of gas and a throwing createTransaction each end in exactly
\* one error response, with the pool unchanged and nothing broadcast; a
\* deploy that is still building has sent no response yet.  For the transfer
\* and the call this is stated contrapositively: a step of the route that is
\* not such a refusal is the step of no request that meets a failure
\* condition.
C7_FailuresAnswered ==
    [][/\ (last'.op = "transact" /\ ~RefusedStep) =>
            \A r \in TransactRequests :
               (r[1] \notin ephemeralKeys \/ r[3] > BalanceOf(r[1]))
                  => ~Transact(r[1], r[2], r[3])
       /\ \A r \in DeployRequests :
            (last'.op = "deploy" /\ Deploy(r[1], r[2], r[3])) =>
               /\ ( \/ r[1] \notin ephemeralKeys
                    \/ r[3] <= 0
                    \/ BalanceOf(r[1]) * 10 < r[3] ) =>
                    /\ Refused(last') /\ builds' = builds
                    /\ pool' = pool /\ trace' = <<>>
               /\ builds' # builds => last'.responses = <<>>
       /\ \A i \in DOMAIN builds, o \in BuildOutcomes :
            (last'.op = "deployBuilt" /\ DeployBuilt(i, o[1], o[2], o[3])) =>
               IF o[1] \/ ~o[2] \/ o[3] > builds[i].gasLimit
               THEN /\ Refused(last') /\ builds' = RemoveAt(builds, i)
                    /\ pool' = pool /\ trace' = <<>>
               ELSE last'.responses = <<>> /\ Len(builds') = Len(builds)
       /\ \A i \in DOMAIN builds :
            (last'.op = "deployCompiled" /\ DeployCompiled(i)) =>
               /\ Len(last'.responses) = 1
               /\ builds' = RemoveAt(builds, i)
               /\ 0 > BalanceOf(builds[i].user) =>
                    Refused(last') /\ pool' = pool /\ trace' = <<>>
       /\ (last'.op = "interact" /\ ~RefusedStep) =>
            \A r \in InteractRequests :
               ( \/ r[1] \notin ephemeralKeys
                 \/ r[4] <= 0
                 \/ r[4] < 200
                 \/ BalanceOf(r[1]) * 10 < r[4]
                 \/ 0 > BalanceOf(r[1]) )
                  => ~Interact(r[1], r[2], r[3], r[4])
      ]_vars

C7_Witness ==
    /\ last.op = "transact"
    /\ last.responses = <<Response(400, "InsufficientFunds")>>

BroadcastsOf(t, id) ==
    {j \in DOMAIN t : t[j].op = "broadcastTransaction" /\ t[j].arg = id}

\* C8: whenever a route calls broadcastTransaction(tx), tx is already in the
\* local pool, put there by an earlier setTransaction of the same request,
\* and every transaction a route inserts is broadcast exactly once, after
\* its insertion.
C8_PoolBeforeGossip ==
    [][/\ \A j \in DOMAIN trace' :
            trace'[j].op = "broadcastTransaction" =>
               /\ trace'[j].flag
               /\ trace'[j].arg \in DOMAIN pool'
               /\ \E i \in 1..(j - 1) :
                     trace'[i] = Event("setTransaction", trace'[j].arg, TRUE)
       /\ \A i \in DOMAIN trace' :
            trace'[i].op = "setTransaction" =>
               /\ Cardinality(BroadcastsOf(trace', trace'[i].arg)) = 1
               /\ \A j \in BroadcastsOf(trace', trace'[i].arg) : j > i
       /\ \A id \in DOMAIN pool' \ DOMAIN pool :
            Cardinality(BroadcastsOf(trace', id)) = 1
      ]_vars

C8_Witness ==
    /\ Len(trace) = 2
    /\ trace[2].op = "broadcastTransaction"
    /\ trace[2].arg \in DOMAIN pool

C10_DocStateUntouched ==
    last.op = "runWasmContract" =>
       /\ last.stateAfter = last.stateBefore
       /\ last.outcome = "returned" =>
            /\ last.newState.count = last.stateBefore.count
            /\ last.called =>
                 last.exported /\ last.newState.lastCallResult = last.result
            /\ ~last.called =>
                 last.newState.lastCallResult = last.stateBefore.lastCallResult

C10_Witness ==
    /\ last.op = "runWasmContract"
    /\ last.outcome = "returned"
    /\ last.called
    /\ last.stateBefore.lastCallResult = "7"
    /\ last.newState.lastCallResult = "1"

\* C11: every deploy transaction placed in the pool has a sender whose
\* balance, computed from the chain as it is when the transaction is inserted,
\* is at least gasLimit x FIXED_GAS_PRICE, whatever block appends happened
\* between the route's balance check and the end of the build.
C11_DeployFundedAtInsertion ==
    [][\A i \in DOMAIN builds :
          (/\ last'.op = "deployCompiled"
           /\ DeployCompiled(i)
           /\ pool' # pool)
             => ~BalanceBelowNeeded(BalanceOf(builds[i].user),
                                    builds[i].gasLimit)]_vars

====
